---- MODULE Spec2Model ----
(***************************************************************************)
(* k3d cluster lifecycle: CreateCluster, DeleteCluster, StopCluster and    *)
(* StartCluster of package run, as a state machine over the container      *)
(* runtime (containers, networks, volumes) and the local cluster           *)
(* directories.  Every runtime call of a handler is one step of the        *)
(* invocation that makes it, so that a failing call can be placed anywhere *)
(* in the sequence the code prescribes.                                    *)
(***************************************************************************)
EXTENDS Integers, Sequences, FiniteSets, TLC

\* ---------------------------------------------------------------- bounds
Names == {"a", "b"}          \* cluster names a command line can carry
MaxWorkers == 2              \* largest --workers value that is tried
MaxFailures == 1             \* runtime calls that fail in one behaviour
MaxOps == 2                  \* commands run one after the other

Procs == {1}                 \* command invocations (one process each)
NoID == 0                    \* the ID of a server the discovery did not find

VARIABLES
  containers,   \* node containers of the runtime: id, labels, name, state
  networks,     \* cluster names that have a cluster network
  volumes,      \* cluster names that have an image volume
  dirs,         \* cluster names that have a local cluster directory
  nextId,       \* the next container ID the runtime hands out
  failures,     \* runtime calls that have failed so far
  ops,          \* commands started so far
  inv           \* per process: the running command, its position and locals

vars == <<containers, networks, volumes, dirs, nextId, failures, ops, inv>>
runtime == <<containers, networks, volumes, dirs>>

\* ------------------------------------------------------- names and labels
Digits == <<"0", "1", "2", "3", "4", "5", "6", "7", "8", "9",
            "10", "11", "12", "13", "14", "15", "16", "17", "18", "19">>

\* strconv.Itoa on the ordinals the model uses
Itoa(n) == Digits[n + 1]

\* strconv.Atoi: -1 stands for the error return
Atoi(s) == IF \E n \in 0..(Len(Digits) - 1) : Digits[n + 1] = s
           THEN CHOOSE n \in 0..(Len(Digits) - 1) : Digits[n + 1] = s
           ELSE -1

\* container names, split at "-": <cluster>-server and <cluster>-worker-<n>
ServerName(c) == <<c, "server">>
WorkerName(c, n) == <<c, "worker", Itoa(n)>>

\* the trailing name segment of a worker, as a number
Suffix(w) == Atoi(w.name[Len(w.name)])

ServersOf(cs, c) == {x \in cs : x.cluster = c /\ x.comp = "server"}
WorkersOf(cs, c) == {x \in cs : x.cluster = c /\ x.comp = "worker"}

\* ------------------------------------------------- environment and command
\* a string is the sequence of its parts, "=" being a part of its own
Entry(key, value) == <<key, "=", value>>

UserEnvs == {<<>>, <<Entry("FOO", "1")>>}   \* the --env lists that are tried
Secrets == {"s1", "s2"}                      \* what GenerateRandomString returns
DefaultPort == "6443"                        \* the port of the default --api-port
PlainEnvs == {<<>>}                          \* a command line without --env
PlainSecrets == {"s1"}                       \* one generated secret

\* ServerEnv with the generated secret before the entries of the user
ServerEnvSecretSecond(userEnv, secret) ==
  <<Entry("K3S_KUBECONFIG_OUTPUT", "/output/kubeconfig.yaml"),
    Entry("K3S_CLUSTER_SECRET", secret)>> \o userEnv

\* the environment CreateCluster hands to the nodes of the cluster
ServerEnv(userEnv, secret) ==
  (<<Entry("K3S_KUBECONFIG_OUTPUT", "/output/kubeconfig.yaml")>> \o userEnv)
    \o <<Entry("K3S_CLUSTER_SECRET", secret)>>

\* the arguments CreateCluster hands to the k3s server
ServerArgs(port, userArgs) == <<"--https-listen-port", port>> \o userArgs

\* the command of a server container: k3s server and its arguments
ServerCmd(args) == <<"server">> \o args

Node(id, c, comp, name, run, env, cmd) ==
  [id |-> id, cluster |-> c, comp |-> comp, name |-> name, running |-> run,
   env |-> env, cmd |-> cmd]
Server(id, c, run, env, args) ==
  Node(id, c, "server", ServerName(c), run, env, ServerCmd(args))
Worker(id, c, n, run, env) ==
  Node(id, c, "worker", WorkerName(c, n), run, env, <<"agent">>)

\* ------------------------------------------------------------- discovery
\* worker IDs by ascending name suffix
RECURSIVE SortWorkers(_)
SortWorkers(ws) ==
  IF ws = {} THEN <<>>
  ELSE LET m == CHOOSE x \in ws : \A y \in ws :
                    \/ Suffix(x) < Suffix(y)
                    \/ Suffix(x) = Suffix(y) /\ x.id <= y.id
       IN <<m.id>> \o SortWorkers(ws \ {m})

\* the containers a discovery query matches
Matching(cs, all, name) == {x \in cs : all \/ name = "" \/ x.cluster = name}

ClusterView(cs, c) ==
  [name |-> c,
   server |-> IF ServersOf(cs, c) = {} THEN NoID
              ELSE (CHOOSE s \in ServersOf(cs, c) : TRUE).id,
   workers |-> SortWorkers(WorkersOf(cs, c))]

\* Discover(all, name): the clusters, and the error of a cluster with two servers
getClusters(cs, all, name) ==
  LET m == Matching(cs, all, name)
      groups == {x.cluster : x \in m}
  IN [err |-> \E c \in groups : Cardinality(ServersOf(m, c)) > 1,
      clusters |-> {ClusterView(m, c) : c \in groups}]

\* the orders in which a set of clusters can be handed to the caller
Orderings(S) ==
  {s \in [1..Cardinality(S) -> S] : \A i, j \in 1..Cardinality(S) : i # j => s[i] # s[j]}

\* ------------------------------------------------------------ invocations
\* the inspection result before a container was inspected
NoContainer == [name |-> <<>>, env |-> <<>>, cmd |-> <<>>]

Idle ==
  [op |-> "none", pc |-> "idle", name |-> "", all |-> FALSE, workers |-> 0,
   wait |-> FALSE, clusters |-> <<>>, ci |-> 1, wi |-> 1, i |-> 0,
   serverID |-> NoID, rollback |-> FALSE, result |-> "none", calls |-> <<>>,
   before |-> <<>>, again |-> FALSE, prevFailed |-> FALSE,
   preStop |-> {}, stopOk |-> FALSE, env |-> <<>>, serverArgs |-> <<>>,
   nodeRole |-> "", nodeCount |-> 0, serverContainer |-> NoContainer,
   clusterSecretEnvVar |-> <<>>, serverListenPort |-> "",
   highestExistingWorkerSuffix |-> 0, started |-> 0, ended |-> 0]

Call(call, cluster, arg, ok) == [call |-> call, cluster |-> cluster, arg |-> arg, ok |-> ok]

\* a runtime call may fail while the behaviour has failures left
MayFail == failures < MaxFailures

\* the states the runtime is in after successful creations
Created(present, count) ==
  LET base(c) == IF c = "a" THEN 0 ELSE MaxWorkers + 1
      env == ServerEnv(<<>>, "s1")
  IN UNION {{Server(base(c) + 1, c, TRUE, env, ServerArgs(DefaultPort, <<>>))}
              \cup {Worker(base(c) + 2 + n, c, n, TRUE, env) : n \in 0..(count[c] - 1)}
            : c \in present}

Init ==
  /\ \E present \in SUBSET Names :
       \E count \in [Names -> 0..MaxWorkers] :
          /\ count["a"] = IF "a" \in present THEN MaxWorkers ELSE 0
          /\ count["b"] = IF "b" \in present THEN 1 ELSE 0
          /\ containers = Created(present, count)
          /\ networks = present
          /\ volumes = present
          /\ dirs = present
  /\ nextId = 2 * (MaxWorkers + 1) + 1
  /\ failures = 0
  /\ ops = 0
  /\ inv = [p \in Procs |-> Idle]

\* a command can be started when the process runs none
CanInvoke(p) == inv[p].pc \in {"idle", "done"} /\ ops < MaxOps

\* a container removal of the command failed
RemovalFailed(calls) ==
  \E k \in 1..Len(calls) : calls[k].call \in {"removeWorker", "removeServer"} /\ ~calls[k].ok

\* the command before this one, r, was the same command on the same target and
\* found a cluster to work on
Again(r, op, name, all) ==
  r.op = op /\ r.name = name /\ r.all = all /\ ~r.rollback /\ Len(r.clusters) > 0

\* the command before this Start, r, was a Stop of the same target that found a cluster
AfterStop(r, op, name, all) ==
  op = "start" /\ r.op = "stop" /\ r.name = name /\ r.all = all /\ Len(r.clusters) > 0

\* the command returned no error and none of its calls failed
AllOk(r) == r.result = "ok" /\ \A k \in 1..Len(r.calls) : r.calls[k].ok

\* the locals of a command that starts, with what it keeps of the one before it
Begin(r, op, name, all, workers, wait) ==
  [Idle EXCEPT !.op = op, !.name = name, !.all = all, !.workers = workers,
               !.wait = wait, !.before = runtime, !.started = ops,
               !.again = Again(r, op, name, all),
               !.prevFailed = Again(r, op, name, all) /\ RemovalFailed(r.calls),
               !.preStop = IF AfterStop(r, op, name, all) THEN r.before[1] ELSE {},
               !.stopOk = AfterStop(r, op, name, all) /\ AllOk(r)]

Logged(r, call, cluster, arg, ok) == [r EXCEPT !.calls = Append(@, Call(call, cluster, arg, ok))]

\* the command returns; ended tells how many commands had been started by then
Finish(r, result) == [r EXCEPT !.pc = "done", !.result = result, !.ended = ops]

\* the outcome of a runtime call: ok, or a failure the behaviour still has left
Outcome(ok) ==
  /\ ok \/ MayFail
  /\ failures' = IF ok THEN failures ELSE failures + 1

\* the outcome of a call on a container: one that is gone always fails
OutcomeOn(id, ok) ==
  IF \E x \in containers : x.id = id
  THEN Outcome(ok)
  ELSE ~ok /\ UNCHANGED failures

\* the command arguments that matter: --all, or a --name
Targets == {[all |-> TRUE, name |-> ""]} \cup {[all |-> FALSE, name |-> n] : n \in Names}

\* ---------------------------------------------------------- DeleteCluster
\* where the loop over the discovered clusters goes for cluster number k
EnterCluster(r, k, workerPc, emptyPc) ==
  IF k > Len(r.clusters) THEN Finish(r, IF r.rollback THEN "err" ELSE "ok")
  ELSE [r EXCEPT !.ci = k, !.wi = 1,
                 !.pc = IF Len(r.clusters[k].workers) > 0 THEN workerPc ELSE emptyPc]

\* Discovered with an empty result taken for an error
DiscoveredEmptyIsError(r, order, err, workerPc, emptyPc) ==
  LET l == Logged(r, "getClusters", r.name, 0, ~err)
  IN IF err \/ Len(order) = 0 THEN Finish(l, "err")
     ELSE EnterCluster([l EXCEPT !.clusters = order], 1, workerPc, emptyPc)

\* getClusters at the head of DeleteCluster, StopCluster and StartCluster
Discovered(r, order, err, workerPc, emptyPc) ==
  LET l == Logged(r, "getClusters", r.name, 0, ~err)
  IN IF err THEN Finish(l, "err")
     ELSE EnterCluster([l EXCEPT !.clusters = order], 1, workerPc, emptyPc)

DeleteClusterDiscover(p) ==
  /\ CanInvoke(p)
  /\ \E t \in Targets :
       LET d == getClusters(containers, t.all, t.name)
       IN \E order \in Orderings(d.clusters) :
            inv' = [inv EXCEPT ![p] =
                      Discovered(Begin(inv[p], "delete", t.name, t.all, 0, FALSE),
                                 order, d.err, "d_worker", "d_dir")]
  /\ ops' = ops + 1
  /\ UNCHANGED <<containers, networks, volumes, dirs, nextId, failures>>

\* Rollback that looks up no cluster and removes nothing
RollbackFindsNothing(p) ==
  /\ inv[p].pc = "rollback"
  /\ inv' = [inv EXCEPT ![p] = Finish([inv[p] EXCEPT !.rollback = TRUE], "err")]
  /\ UNCHANGED <<containers, networks, volumes, dirs, nextId, failures, ops>>

\* deleteCluster(): the rollback of CreateCluster calls DeleteCluster(c)
Rollback(p) ==
  /\ inv[p].pc = "rollback"
  /\ LET d == getClusters(containers, FALSE, inv[p].name)
     IN \E order \in Orderings(d.clusters) :
          inv' = [inv EXCEPT ![p] =
                    Discovered([inv[p] EXCEPT !.rollback = TRUE],
                               order, d.err, "d_worker", "d_dir")]
  /\ UNCHANGED <<containers, networks, volumes, dirs, nextId, failures, ops>>

\* the next position of a loop over the workers of the current cluster
NextWorker(r, afterPc) ==
  IF r.wi < Len(r.clusters[r.ci].workers) THEN [r EXCEPT !.wi = @ + 1]
  ELSE [r EXCEPT !.pc = afterPc]

\* RemoveWorker that returns the error of a failed removal
RemoveWorkerAborts(p) ==
  /\ inv[p].pc = "d_worker"
  /\ LET r == inv[p]
         cl == r.clusters[r.ci]
         id == cl.workers[r.wi]
         l(ok) == Logged(r, "removeWorker", cl.name, id, ok)
     IN \E ok \in BOOLEAN :
          /\ OutcomeOn(id, ok)
          /\ containers' = IF ok THEN {x \in containers : x.id # id} ELSE containers
          /\ inv' = [inv EXCEPT ![p] =
                       IF ok THEN NextWorker(l(ok), "d_dir") ELSE Finish(l(ok), "err")]
  /\ UNCHANGED <<networks, volumes, dirs, nextId, ops>>

RemoveWorker(p) ==
  /\ inv[p].pc = "d_worker"
  /\ LET r == inv[p]
         cl == r.clusters[r.ci]
         id == cl.workers[r.wi]
     IN \E ok \in BOOLEAN :
          /\ OutcomeOn(id, ok)
          /\ containers' = IF ok THEN {x \in containers : x.id # id} ELSE containers
          /\ inv' = [inv EXCEPT ![p] =
                       NextWorker(Logged(r, "removeWorker", cl.name, id, ok), "d_dir")]
  /\ UNCHANGED <<networks, volumes, dirs, nextId, ops>>

DeleteClusterDir(p) ==
  /\ inv[p].pc = "d_dir"
  /\ LET r == inv[p]
         cl == r.clusters[r.ci]
     IN /\ dirs' = dirs \ {cl.name}
        /\ inv' = [inv EXCEPT ![p] =
                     [Logged(r, "deleteClusterDir", cl.name, 0, TRUE) EXCEPT !.pc = "d_server"]]
  /\ UNCHANGED <<containers, networks, volumes, nextId, failures, ops>>

\* RemoveServer that logs a failed removal and goes on
RemoveServerContinues(p) ==
  /\ inv[p].pc = "d_server"
  /\ LET r == inv[p]
         cl == r.clusters[r.ci]
     IN \E ok \in BOOLEAN :
          /\ OutcomeOn(cl.server, ok)
          /\ containers' = IF ok THEN {x \in containers : x.id # cl.server} ELSE containers
          /\ inv' = [inv EXCEPT ![p] =
                       [Logged(r, "removeServer", cl.name, cl.server, ok) EXCEPT !.pc = "d_network"]]
  /\ UNCHANGED <<networks, volumes, dirs, nextId, ops>>

RemoveServer(p) ==
  /\ inv[p].pc = "d_server"
  /\ LET r == inv[p]
         cl == r.clusters[r.ci]
         l(ok) == Logged(r, "removeServer", cl.name, cl.server, ok)
     IN \E ok \in BOOLEAN :
          /\ OutcomeOn(cl.server, ok)
          /\ containers' = IF ok THEN {x \in containers : x.id # cl.server} ELSE containers
          /\ inv' = [inv EXCEPT ![p] =
                       IF ok THEN [l(ok) EXCEPT !.pc = "d_network"]
                       ELSE Finish(l(ok), "err")]
  /\ UNCHANGED <<networks, volumes, dirs, nextId, ops>>

DeleteClusterNetwork(p) ==
  /\ inv[p].pc = "d_network"
  /\ LET r == inv[p]
         cl == r.clusters[r.ci]
     IN \E ok \in BOOLEAN :
          /\ Outcome(ok)
          /\ networks' = IF ok THEN networks \ {cl.name} ELSE networks
          /\ inv' = [inv EXCEPT ![p] =
                       [Logged(r, "deleteClusterNetwork", cl.name, 0, ok) EXCEPT !.pc = "d_volume"]]
  /\ UNCHANGED <<containers, volumes, dirs, nextId, ops>>

DeleteImageVolume(p) ==
  /\ inv[p].pc = "d_volume"
  /\ LET r == inv[p]
         cl == r.clusters[r.ci]
     IN \E ok \in BOOLEAN :
          /\ Outcome(ok)
          /\ volumes' = IF ok THEN volumes \ {cl.name} ELSE volumes
          /\ inv' = [inv EXCEPT ![p] =
                       EnterCluster(Logged(r, "deleteImageVolume", cl.name, 0, ok),
                                    r.ci + 1, "d_worker", "d_dir")]
  /\ UNCHANGED <<containers, networks, dirs, nextId, ops>>

\* ------------------------------------------------------------ StopCluster
StopClusterDiscover(p) ==
  /\ CanInvoke(p)
  /\ \E t \in Targets :
       LET d == getClusters(containers, t.all, t.name)
       IN \E order \in Orderings(d.clusters) :
            inv' = [inv EXCEPT ![p] =
                      Discovered(Begin(inv[p], "stop", t.name, t.all, 0, FALSE),
                                 order, d.err, "s_worker", "s_server")]
  /\ ops' = ops + 1
  /\ UNCHANGED <<containers, networks, volumes, dirs, nextId, failures>>

\* docker.ContainerStop / docker.ContainerStart on one container
SetRunning(cs, id, run) ==
  {IF x.id = id THEN [x EXCEPT !.running = run] ELSE x : x \in cs}

StopWorker(p) ==
  /\ inv[p].pc = "s_worker"
  /\ LET r == inv[p]
         cl == r.clusters[r.ci]
         id == cl.workers[r.wi]
     IN \E ok \in BOOLEAN :
          /\ OutcomeOn(id, ok)
          /\ containers' = IF ok THEN SetRunning(containers, id, FALSE) ELSE containers
          /\ inv' = [inv EXCEPT ![p] =
                       NextWorker(Logged(r, "stopWorker", cl.name, id, ok), "s_server")]
  /\ UNCHANGED <<networks, volumes, dirs, nextId, ops>>

StopServer(p) ==
  /\ inv[p].pc = "s_server"
  /\ LET r == inv[p]
         cl == r.clusters[r.ci]
         l(ok) == Logged(r, "stopServer", cl.name, cl.server, ok)
     IN \E ok \in BOOLEAN :
          /\ OutcomeOn(cl.server, ok)
          /\ containers' = IF ok THEN SetRunning(containers, cl.server, FALSE) ELSE containers
          /\ inv' = [inv EXCEPT ![p] =
                       IF ok THEN EnterCluster(l(ok), r.ci + 1, "s_worker", "s_server")
                       ELSE Finish(l(ok), "err")]
  /\ UNCHANGED <<networks, volumes, dirs, nextId, ops>>

\* ----------------------------------------------------------- StartCluster
StartClusterDiscover(p) ==
  /\ CanInvoke(p)
  /\ \E t \in Targets :
       LET d == getClusters(containers, t.all, t.name)
       IN \E order \in Orderings(d.clusters) :
            inv' = [inv EXCEPT ![p] =
                      Discovered(Begin(inv[p], "start", t.name, t.all, 0, FALSE),
                                 order, d.err, "t_server", "t_server")]
  /\ ops' = ops + 1
  /\ UNCHANGED <<containers, networks, volumes, dirs, nextId, failures>>

\* StartServer that logs a failed start and goes on to the workers
StartServerContinues(p) ==
  /\ inv[p].pc = "t_server"
  /\ LET r == inv[p]
         cl == r.clusters[r.ci]
         l(ok) == Logged(r, "startServer", cl.name, cl.server, ok)
     IN \E ok \in BOOLEAN :
          /\ OutcomeOn(cl.server, ok)
          /\ containers' = IF ok THEN SetRunning(containers, cl.server, TRUE) ELSE containers
          /\ inv' = [inv EXCEPT ![p] =
                       IF Len(cl.workers) > 0 THEN [l(ok) EXCEPT !.pc = "t_worker", !.wi = 1]
                       ELSE EnterCluster(l(ok), r.ci + 1, "t_server", "t_server")]
  /\ UNCHANGED <<networks, volumes, dirs, nextId, ops>>

StartServer(p) ==
  /\ inv[p].pc = "t_server"
  /\ LET r == inv[p]
         cl == r.clusters[r.ci]
         l(ok) == Logged(r, "startServer", cl.name, cl.server, ok)
     IN \E ok \in BOOLEAN :
          /\ OutcomeOn(cl.server, ok)
          /\ containers' = IF ok THEN SetRunning(containers, cl.server, TRUE) ELSE containers
          /\ inv' = [inv EXCEPT ![p] =
                       IF ~ok THEN Finish(l(ok), "err")
                       ELSE IF Len(cl.workers) > 0 THEN [l(ok) EXCEPT !.pc = "t_worker", !.wi = 1]
                       ELSE EnterCluster(l(ok), r.ci + 1, "t_server", "t_server")]
  /\ UNCHANGED <<networks, volumes, dirs, nextId, ops>>

\* StartWorker that reports success without starting the container
StartWorkerStartsNothing(p) ==
  /\ inv[p].pc = "t_worker"
  /\ LET r == inv[p]
         cl == r.clusters[r.ci]
         id == cl.workers[r.wi]
         l(ok) == Logged(r, "startWorker", cl.name, id, ok)
     IN \E ok \in BOOLEAN :
          /\ OutcomeOn(id, ok)
          /\ inv' = [inv EXCEPT ![p] =
                       IF r.wi < Len(cl.workers) THEN [l(ok) EXCEPT !.wi = @ + 1]
                       ELSE EnterCluster(l(ok), r.ci + 1, "t_server", "t_server")]
  /\ UNCHANGED <<containers, networks, volumes, dirs, nextId, ops>>

StartWorker(p) ==
  /\ inv[p].pc = "t_worker"
  /\ LET r == inv[p]
         cl == r.clusters[r.ci]
         id == cl.workers[r.wi]
         l(ok) == Logged(r, "startWorker", cl.name, id, ok)
     IN \E ok \in BOOLEAN :
          /\ OutcomeOn(id, ok)
          /\ containers' = IF ok THEN SetRunning(containers, id, TRUE) ELSE containers
          /\ inv' = [inv EXCEPT ![p] =
                       IF r.wi < Len(cl.workers) THEN [l(ok) EXCEPT !.wi = @ + 1]
                       ELSE EnterCluster(l(ok), r.ci + 1, "t_server", "t_server")]
  /\ UNCHANGED <<networks, volumes, dirs, nextId, ops>>

\* ---------------------------------------------------------- CreateCluster
\* CreateClusterCheck without the check that the name is not taken
CreateClusterNoCheck(p) ==
  /\ CanInvoke(p)
  /\ \E name \in Names, workers \in 0..MaxWorkers, wait \in BOOLEAN :
       LET d == getClusters(containers, FALSE, name)
           r == Logged(Begin(inv[p], "create", name, FALSE, workers, wait),
                       "getClusters", name, 0, ~d.err)
       IN inv' = [inv EXCEPT ![p] = [r EXCEPT !.pc = "c_network"]]
  /\ ops' = ops + 1
  /\ UNCHANGED <<containers, networks, volumes, dirs, nextId, failures>>

\* CheckClusterName and the check that the name is not taken
CreateClusterCheck(p) ==
  /\ CanInvoke(p)
  /\ \E name \in Names, workers \in 0..MaxWorkers, wait \in BOOLEAN :
       LET d == getClusters(containers, FALSE, name)
           r == Logged(Begin(inv[p], "create", name, FALSE, workers, wait),
                       "getClusters", name, 0, ~d.err)
       IN inv' = [inv EXCEPT ![p] =
                    IF d.err \/ d.clusters # {} THEN Finish(r, "err")
                    ELSE [r EXCEPT !.pc = "c_network"]]
  /\ ops' = ops + 1
  /\ UNCHANGED <<containers, networks, volumes, dirs, nextId, failures>>

CreateClusterNetwork(p) ==
  /\ inv[p].pc = "c_network"
  /\ LET r == inv[p]
         l(ok) == Logged(r, "createClusterNetwork", r.name, 0, ok)
     IN \E ok \in BOOLEAN :
          /\ Outcome(ok)
          /\ networks' = IF ok THEN networks \cup {r.name} ELSE networks
          /\ inv' = [inv EXCEPT ![p] =
                       IF ok THEN [l(ok) EXCEPT !.pc = "c_apiport"] ELSE Finish(l(ok), "err")]
  /\ UNCHANGED <<containers, volumes, dirs, nextId, ops>>

\* the environment of the nodes, then parseAPIPort(--api-port): a malformed
\* value returns the error, no rollback
ParseAPIPortEnv(p, userEnvs, secrets) ==
  /\ inv[p].pc = "c_apiport"
  /\ LET r == inv[p]
         l(ok) == Logged(r, "parseAPIPort", r.name, 0, ok)
     IN \E ok \in BOOLEAN, userEnv \in userEnvs, secret \in secrets :
          /\ Outcome(ok)
          /\ inv' = [inv EXCEPT ![p] =
                       IF ok THEN [l(ok) EXCEPT !.pc = "c_portmap",
                                                !.env = ServerEnv(userEnv, secret),
                                                !.serverArgs = ServerArgs(DefaultPort, <<>>)]
                       ELSE Finish(l(ok), "err")]
  /\ UNCHANGED <<containers, networks, volumes, dirs, nextId, ops>>

\* CreateCluster of a command line without --env
ParseAPIPort(p) == ParseAPIPortEnv(p, PlainEnvs, PlainSecrets)

\* mapNodesToPortSpecs(--port, node names): an error ends the process (log.Fatal)
MapNodesToPortSpecs(p) ==
  /\ inv[p].pc = "c_portmap"
  /\ LET r == inv[p]
         l(ok) == Logged(r, "mapNodesToPortSpecs", r.name, 0, ok)
     IN \E ok \in BOOLEAN :
          /\ Outcome(ok)
          /\ inv' = [inv EXCEPT ![p] =
                       IF ok THEN [l(ok) EXCEPT !.pc = "c_volume"] ELSE Finish(l(ok), "fatal")]
  /\ UNCHANGED <<containers, networks, volumes, dirs, nextId, ops>>

\* CreateImageVolume that goes on to the server without the cluster directory
CreateImageVolumeSkipsDir(p) ==
  /\ inv[p].pc = "c_volume"
  /\ LET r == inv[p]
         l(ok) == Logged(r, "createImageVolume", r.name, 0, ok)
     IN \E ok \in BOOLEAN :
          /\ Outcome(ok)
          /\ volumes' = IF ok THEN volumes \cup {r.name} ELSE volumes
          /\ inv' = [inv EXCEPT ![p] =
                       IF ok THEN [l(ok) EXCEPT !.pc = "c_server"] ELSE Finish(l(ok), "err")]
  /\ UNCHANGED <<containers, networks, dirs, nextId, ops>>

CreateImageVolume(p) ==
  /\ inv[p].pc = "c_volume"
  /\ LET r == inv[p]
         l(ok) == Logged(r, "createImageVolume", r.name, 0, ok)
     IN \E ok \in BOOLEAN :
          /\ Outcome(ok)
          /\ volumes' = IF ok THEN volumes \cup {r.name} ELSE volumes
          /\ inv' = [inv EXCEPT ![p] =
                       IF ok THEN [l(ok) EXCEPT !.pc = "c_dir"] ELSE Finish(l(ok), "err")]
  /\ UNCHANGED <<containers, networks, dirs, nextId, ops>>

CreateClusterDir(p) ==
  /\ inv[p].pc = "c_dir"
  /\ LET r == inv[p]
     IN /\ dirs' = dirs \cup {r.name}
        /\ inv' = [inv EXCEPT ![p] =
                     [Logged(r, "createClusterDir", r.name, 0, TRUE) EXCEPT !.pc = "c_server"]]
  /\ UNCHANGED <<containers, networks, volumes, nextId, failures, ops>>

\* createServer / createWorker: create the container, then start it.  A name that
\* is taken fails the creation; a failed start leaves the created container.
NodeCreated(node, ok, left) ==
  /\ IF \E x \in containers : x.name = node.name
     THEN ~ok /\ ~left /\ UNCHANGED failures
     ELSE Outcome(ok)
  /\ ok => ~left
  /\ containers' = IF ok THEN containers \cup {node}
                   ELSE IF left THEN containers \cup {[node EXCEPT !.running = FALSE]}
                   ELSE containers
  /\ nextId' = IF ok \/ left THEN nextId + 1 ELSE nextId

\* AfterNode with the worker loop one short
AfterNodeOneShort(r, i) ==
  IF i < r.workers - 1 THEN [r EXCEPT !.pc = "c_worker", !.i = i] ELSE Finish(r, "ok")

\* where CreateCluster goes once the server is up and i workers exist
AfterNode(r, i) ==
  IF i < r.workers THEN [r EXCEPT !.pc = "c_worker", !.i = i] ELSE Finish(r, "ok")

CreateServer(p) ==
  /\ inv[p].pc = "c_server"
  /\ LET r == inv[p]
         l(ok) == Logged(r, "createServer", r.name, nextId, ok)
     IN \E ok, left \in BOOLEAN :
          /\ NodeCreated(Server(nextId, r.name, TRUE, r.env, r.serverArgs), ok, left)
          /\ inv' = [inv EXCEPT ![p] =
                       IF ~ok THEN [l(ok) EXCEPT !.pc = "rollback"]
                       ELSE IF r.wait THEN [l(ok) EXCEPT !.pc = "c_wait", !.serverID = nextId]
                       ELSE AfterNode([l(ok) EXCEPT !.serverID = nextId], 0)]
  /\ UNCHANGED <<networks, volumes, dirs, ops>>

\* WaitForServer that ignores the error of the wait
WaitForServerIgnoresError(p) ==
  /\ inv[p].pc = "c_wait"
  /\ LET r == inv[p]
     IN \E ok \in BOOLEAN :
          /\ Outcome(ok)
          /\ inv' = [inv EXCEPT ![p] =
                       AfterNode(Logged(r, "waitForContainerLogMessage", r.name, r.serverID, ok), 0)]
  /\ UNCHANGED <<containers, networks, volumes, dirs, nextId, ops>>

\* waitForContainerLogMessage(serverContainerID, "Running kubelet", --wait)
WaitForServer(p) ==
  /\ inv[p].pc = "c_wait"
  /\ LET r == inv[p]
         l(ok) == Logged(r, "waitForContainerLogMessage", r.name, r.serverID, ok)
     IN \E ok \in BOOLEAN :
          /\ Outcome(ok)
          /\ inv' = [inv EXCEPT ![p] =
                       IF ok THEN AfterNode(l(ok), 0) ELSE [l(ok) EXCEPT !.pc = "rollback"]]
  /\ UNCHANGED <<containers, networks, volumes, dirs, nextId, ops>>

CreateWorker(p) ==
  /\ inv[p].pc = "c_worker"
  /\ LET r == inv[p]
         l(ok) == Logged(r, "createWorker", r.name, r.i, ok)
     IN \E ok, left \in BOOLEAN :
          /\ NodeCreated(Worker(nextId, r.name, r.i, TRUE, r.env), ok, left)
          /\ inv' = [inv EXCEPT ![p] =
                       IF ok THEN AfterNode(l(ok), r.i + 1) ELSE [l(ok) EXCEPT !.pc = "rollback"]]
  /\ UNCHANGED <<networks, volumes, dirs, ops>>

\* ---------------------------------------------------------------- AddNode
MaxCount == 2                \* largest --count value that is tried
Roles == {"worker", "agent", "server", "master", "foo"}   \* the --role values

\* --role with its aliases resolved
NodeRole(role) ==
  IF role = "worker" THEN "agent" ELSE IF role = "master" THEN "server" ELSE role

Max(S) == CHOOSE n \in S : \A m \in S : m <= n
Min(S) == CHOOSE n \in S : \A m \in S : n <= m

\* strings.SplitN(envVar, "=", 2)[0]: what stands before the first "="
KeyOf(envVar) ==
  LET eqs == {k \in 1..Len(envVar) : envVar[k] = "="}
  IN IF eqs = {} THEN envVar ELSE SubSeq(envVar, 1, Min(eqs) - 1)

\* the last entry of the environment whose key is K3S_CLUSTER_SECRET, "" without one
ClusterSecret(env) ==
  LET hits == {k \in 1..Len(env) : KeyOf(env[k]) = <<"K3S_CLUSTER_SECRET">>}
  IN IF hits = {} THEN <<>> ELSE env[Max(hits)]

\* the scan of the server's command for --https-listen-port: the part after the
\* last flag, "" without a flag; reading past the end of the command panics
ListenPort(cmd) ==
  LET hits == {k \in 1..Len(cmd) : cmd[k] = "--https-listen-port"}
  IN [panic |-> \E k \in hits : k + 1 > Len(cmd),
      port |-> IF hits = {} \/ Max(hits) + 1 > Len(cmd) THEN "" ELSE cmd[Max(hits) + 1]]

\* fmt.Sprintf("K3S_URL=https://%s:%s", serverContainer.Name, serverListenPort)
ServerURL(name, port) == (<<"K3S_URL", "=", "https://">> \o name) \o <<":", port>>

\* JoinEnv with a secret of its own instead of the server's
JoinEnvOwnSecret(r) ==
  <<ServerURL(r.serverContainer.name, r.serverListenPort),
    Entry("K3S_CLUSTER_SECRET", "s1")>>

\* the environment of the nodes that join
JoinEnv(r) ==
  <<ServerURL(r.serverContainer.name, r.serverListenPort), r.clusterSecretEnvVar>>

\* HighestSuffix that takes the suffix of the worker listed last
HighestSuffixOfLast(workerList, k, highest) ==
  IF \E j \in 1..Len(workerList) : Suffix(workerList[j]) = -1 THEN -1
  ELSE IF Len(workerList) = 0 THEN highest
  ELSE Suffix(workerList[Len(workerList)])

\* the loop over the listed workers: the highest suffix so far, -1 for a name
\* whose last segment strconv.Atoi rejects
RECURSIVE HighestSuffix(_, _, _)
HighestSuffix(workerList, k, highest) ==
  IF k > Len(workerList) THEN highest
  ELSE LET currSuffix == Suffix(workerList[k])
       IN IF currSuffix = -1 THEN -1
          ELSE HighestSuffix(workerList, k + 1,
                             IF currSuffix > highest THEN currSuffix ELSE highest)

\* the worker loop of AddNode at the given suffix
AddLoop(r, suffix) ==
  IF suffix < r.nodeCount + 1 + r.highestExistingWorkerSuffix
  THEN [r EXCEPT !.pc = "n_create", !.i = suffix]
  ELSE Finish(r, "ok")

\* AddNode that lets every role through
AddNodeAnyRole(p) ==
  /\ CanInvoke(p)
  /\ \E name \in Names, role \in Roles, count \in 0..MaxCount :
       inv' = [inv EXCEPT ![p] =
                 [Begin(inv[p], "addnode", name, FALSE, 0, FALSE)
                    EXCEPT !.nodeRole = NodeRole(role), !.nodeCount = count,
                           !.pc = "n_servers"]]
  /\ ops' = ops + 1
  /\ UNCHANGED <<containers, networks, volumes, dirs, nextId, failures>>

\* AddNode --name --role --count: the flags, and the role that is not supported
AddNodeCheck(p) ==
  /\ CanInvoke(p)
  /\ \E name \in Names, role \in Roles, count \in 0..MaxCount :
       LET r == [Begin(inv[p], "addnode", name, FALSE, 0, FALSE)
                   EXCEPT !.nodeRole = NodeRole(role), !.nodeCount = count]
       IN inv' = [inv EXCEPT ![p] =
                    IF r.nodeRole = "server" THEN Finish(r, "err")
                    ELSE [r EXCEPT !.pc = "n_servers"]]
  /\ ops' = ops + 1
  /\ UNCHANGED <<containers, networks, volumes, dirs, nextId, failures>>

\* the server the listing returns first, out of the given candidates
ServerListed(p, serverList) ==
  /\ inv[p].pc = "n_servers"
  /\ LET r == inv[p]
         l(ok) == Logged(r, "listServers", r.name, 0, ok)
     IN \E ok \in BOOLEAN :
          /\ Outcome(ok)
          /\ IF ~ok \/ serverList = {}
             THEN inv' = [inv EXCEPT ![p] = Finish(l(ok), "err")]
             ELSE \E first \in serverList :
                    inv' = [inv EXCEPT ![p] =
                              [l(ok) EXCEPT !.pc = "n_inspect", !.serverID = first.id]]
  /\ UNCHANGED <<containers, networks, volumes, dirs, nextId, ops>>

\* ListServers that lists stopped containers as well
ListServersAll(p) == ServerListed(p, ServersOf(containers, inv[p].name))

\* docker.ContainerList of the cluster's server, running containers only
ListServers(p) ==
  ServerListed(p, {x \in ServersOf(containers, inv[p].name) : x.running})

\* docker.ContainerInspect(serverList[0].ID)
InspectServer(p) ==
  /\ inv[p].pc = "n_inspect"
  /\ LET r == inv[p]
         l(ok) == Logged(r, "inspectServer", r.name, r.serverID, ok)
     IN \E ok \in BOOLEAN :
          /\ OutcomeOn(r.serverID, ok)
          /\ IF ~ok THEN inv' = [inv EXCEPT ![p] = Finish(l(ok), "err")]
             ELSE \E x \in containers :
                    /\ x.id = r.serverID
                    /\ inv' = [inv EXCEPT ![p] =
                                 [l(ok) EXCEPT !.pc = "n_secret",
                                               !.serverContainer =
                                                  [name |-> x.name, env |-> x.env,
                                                   cmd |-> x.cmd]]]
  /\ UNCHANGED <<containers, networks, volumes, dirs, nextId, ops>>

\* the cluster secret out of the server's environment
ExtractSecret(p) ==
  /\ inv[p].pc = "n_secret"
  /\ LET r == inv[p]
         clusterSecretEnvVar == ClusterSecret(r.serverContainer.env)
     IN inv' = [inv EXCEPT ![p] =
                  IF clusterSecretEnvVar = <<>> THEN Finish(r, "err")
                  ELSE [r EXCEPT !.pc = "n_port",
                                 !.clusterSecretEnvVar = clusterSecretEnvVar]]
  /\ UNCHANGED <<containers, networks, volumes, dirs, nextId, failures, ops>>

\* the API port out of the server's command
ExtractPort(p) ==
  /\ inv[p].pc = "n_port"
  /\ LET r == inv[p]
         found == ListenPort(r.serverContainer.cmd)
     IN inv' = [inv EXCEPT ![p] =
                  IF found.panic THEN Finish(r, "panic")
                  ELSE IF found.port = "" THEN Finish(r, "err")
                  ELSE [r EXCEPT !.pc = "n_network", !.serverListenPort = found.port]]
  /\ UNCHANGED <<containers, networks, volumes, dirs, nextId, failures, ops>>

\* docker.NetworkList of the cluster; a role that is no agent is done after it
ListNetworks(p) ==
  /\ inv[p].pc = "n_network"
  /\ LET r == inv[p]
         l(ok) == Logged(r, "listNetworks", r.name, 0, ok)
     IN \E ok \in BOOLEAN :
          /\ Outcome(ok)
          /\ inv' = [inv EXCEPT ![p] =
                       IF ~ok \/ r.name \notin networks THEN Finish(l(ok), "err")
                       ELSE IF r.nodeRole = "agent" THEN [l(ok) EXCEPT !.pc = "n_workers"]
                       ELSE Finish(l(ok), "ok")]
  /\ UNCHANGED <<containers, networks, volumes, dirs, nextId, ops>>

\* docker.ContainerList of the cluster's workers, stopped ones included, and the
\* scan of their names for the highest suffix
ListWorkers(p) ==
  /\ inv[p].pc = "n_workers"
  /\ LET r == inv[p]
         l(ok) == Logged(r, "listWorkers", r.name, 0, ok)
     IN \E ok \in BOOLEAN :
          /\ Outcome(ok)
          /\ IF ~ok THEN inv' = [inv EXCEPT ![p] = Finish(l(ok), "err")]
             ELSE \E workerList \in Orderings(WorkersOf(containers, r.name)) :
                    LET highest == HighestSuffix(workerList, 1, 0)
                    IN inv' = [inv EXCEPT ![p] =
                                 IF highest = -1 THEN Finish(l(ok), "err")
                                 ELSE AddLoop([l(ok) EXCEPT
                                                 !.highestExistingWorkerSuffix = highest],
                                              highest + 1)]
  /\ UNCHANGED <<containers, networks, volumes, dirs, nextId, ops>>

\* createWorker(clusterSpec, suffix) in the loop of AddNode: no rollback
AddWorker(p) ==
  /\ inv[p].pc = "n_create"
  /\ LET r == inv[p]
         l(ok) == Logged(r, "createWorker", r.name, r.i, ok)
     IN \E ok, left \in BOOLEAN :
          /\ NodeCreated(Worker(nextId, r.name, r.i, TRUE, JoinEnv(r)), ok, left)
          /\ inv' = [inv EXCEPT ![p] =
                       IF ok THEN AddLoop(l(ok), r.i + 1) ELSE Finish(l(ok), "err")]
  /\ UNCHANGED <<networks, volumes, dirs, ops>>

\* ------------------------------------------------------------------ system
Step(p) ==
  \/ CreateClusterCheck(p)
  \/ CreateClusterNetwork(p)
  \/ ParseAPIPort(p)
  \/ MapNodesToPortSpecs(p)
  \/ CreateImageVolume(p)
  \/ CreateClusterDir(p)
  \/ CreateServer(p)
  \/ WaitForServer(p)
  \/ CreateWorker(p)
  \/ Rollback(p)
  \/ DeleteClusterDiscover(p)
  \/ RemoveWorker(p)
  \/ DeleteClusterDir(p)
  \/ RemoveServer(p)
  \/ DeleteClusterNetwork(p)
  \/ DeleteImageVolume(p)
  \/ StopClusterDiscover(p)
  \/ StopWorker(p)
  \/ StopServer(p)
  \/ StartClusterDiscover(p)
  \/ StartServer(p)
  \/ StartWorker(p)

Next == \E p \in Procs : Step(p)

Spec == Init /\ [][Next]_vars

\* ------------------------------------------------- AddNode on found clusters
\* environments of the servers AddNode can find: made by CreateCluster without
\* and with --env, with a secret of the user's before the generated one, and
\* made by something else, without a secret
FoundEnvs ==
  {ServerEnv(<<>>, "s1"),
   ServerEnv(<<Entry("FOO", "1")>>, "s2"),
   ServerEnv(<<Entry("K3S_CLUSTER_SECRET", "mine")>>, "s1"),
   <<Entry("K3S_KUBECONFIG_OUTPUT", "/output/kubeconfig.yaml")>>}

\* arguments of the servers AddNode can find: made by CreateCluster with the
\* default and with another port, with a --server-arg that ends in the port
\* flag, and made by something else, without the flag
FoundArgs ==
  {ServerArgs(DefaultPort, <<>>),
   ServerArgs("7443", <<>>),
   ServerArgs(DefaultPort, <<"--https-listen-port">>),
   <<"--tls-san", "host">>}

\* the name suffixes of the workers AddNode can find: none, one, two with a
\* gap, and one that is no number
FoundSuffixes == {{}, {"1"}, {"0", "2"}, {"0", "x"}}

ServerScenes ==
  {[present |-> FALSE, running |-> FALSE, env |-> <<>>, args |-> <<>>],
   [present |-> TRUE, running |-> FALSE,
    env |-> ServerEnv(<<>>, "s1"), args |-> ServerArgs(DefaultPort, <<>>)]}
  \cup [present : {TRUE}, running : {TRUE}, env : FoundEnvs, args : FoundArgs]

\* the containers of cluster a in a scene, and cluster b with one worker
Found(sv, suffixes) ==
  LET id(sfx) == CHOOSE n \in 2..4 : Digits[n - 1] = sfx \/ (sfx = "x" /\ n = 4)
  IN (IF sv.present THEN {Server(1, "a", sv.running, sv.env, sv.args)} ELSE {})
     \cup {Node(id(sfx), "a", "worker", <<"a", "worker", sfx>>, TRUE, sv.env, <<"agent">>)
           : sfx \in suffixes}
     \cup {Server(5, "b", TRUE, ServerEnv(<<>>, "s2"), ServerArgs(DefaultPort, <<>>)),
           Worker(6, "b", 3, TRUE, ServerEnv(<<>>, "s2"))}

\* one command is run on each of the scenes
InitNode ==
  /\ \E sv \in ServerScenes, suffixes \in FoundSuffixes, net \in BOOLEAN :
       /\ ~net => ((sv.running \/ ~sv.present) /\ suffixes = {})
       /\ containers = Found(sv, suffixes)
       /\ networks = IF net THEN {"a", "b"} ELSE {"b"}
       /\ volumes = networks
       /\ dirs = networks
  /\ nextId = 7
  /\ failures = 0
  /\ ops = MaxOps - 1
  /\ inv = [p \in Procs |-> Idle]

StepNode(p) ==
  \/ AddNodeCheck(p)
  \/ ListServers(p)
  \/ InspectServer(p)
  \/ ExtractSecret(p)
  \/ ExtractPort(p)
  \/ ListNetworks(p)
  \/ ListWorkers(p)
  \/ AddWorker(p)
  \/ CreateClusterCheck(p)
  \/ CreateClusterNetwork(p)
  \/ ParseAPIPortEnv(p, UserEnvs, Secrets)
  \/ MapNodesToPortSpecs(p)
  \/ CreateImageVolume(p)
  \/ CreateClusterDir(p)
  \/ CreateServer(p)
  \/ WaitForServer(p)
  \/ CreateWorker(p)
  \/ Rollback(p)
  \/ RemoveWorker(p)
  \/ DeleteClusterDir(p)
  \/ RemoveServer(p)
  \/ DeleteClusterNetwork(p)
  \/ DeleteImageVolume(p)

NextNode == \E p \in Procs : StepNode(p)

SpecNode == InitNode /\ [][NextNode]_vars

\* ------------------------------------------------------------- properties
Done(r) == r.pc = "done"

\* the call of the given kind fails at position k of the log
FailedAt(r, k, kinds) == r.calls[k].call \in kinds /\ ~r.calls[k].ok

Attempted(r, call, cluster, arg) ==
  \E k \in 1..Len(r.calls) :
     r.calls[k].call = call /\ r.calls[k].cluster = cluster /\ r.calls[k].arg = arg

ContainersOf(c) == {x \in containers : x.cluster = c}

\* the clusters the command's discovery query matched when the command started
FoundBefore(r) == getClusters(r.before[1], r.all, r.name).clusters

\* C1: a Create that fails at the creation of a worker, and whose rollback calls
\* all succeed, leaves no container, no network and no volume of that name.
C1_RollbackComplete ==
  \A p \in Procs :
     LET r == inv[p]
     IN (/\ Done(r) /\ r.op = "create"
         /\ \E k \in 1..Len(r.calls) :
               /\ FailedAt(r, k, {"createWorker"})
               /\ \A j \in (k + 1)..Len(r.calls) : r.calls[j].ok)
        => /\ ContainersOf(r.name) = {}
           /\ r.name \notin networks
           /\ r.name \notin volumes

\* a Create failed at worker 1, after worker 0 was created, and the rollback
\* removed worker 0, the server, the network and the volume
C1_Witness ==
  \E p \in Procs :
     LET r == inv[p]
     IN /\ Done(r) /\ r.op = "create" /\ r.result = "err"
        /\ \E k \in 1..Len(r.calls) :
              /\ FailedAt(r, k, {"createWorker"}) /\ r.calls[k].arg = 1
              /\ \A j \in (k + 1)..Len(r.calls) : r.calls[j].ok
        /\ \E k \in 1..Len(r.calls) : r.calls[k].call = "removeWorker" /\ r.calls[k].ok
        /\ \E k \in 1..Len(r.calls) : r.calls[k].call = "deleteImageVolume" /\ r.calls[k].ok
        /\ ContainersOf(r.name) = {}

\* C2: a Create that fails at the image volume, the port allocation or the server,
\* all after the network was created, leaves no network and no volume of that name.
C2_RollbackAfterNetwork ==
  \A p \in Procs :
     LET r == inv[p]
     IN (/\ Done(r) /\ r.op = "create"
         /\ \E k \in 1..Len(r.calls) :
               FailedAt(r, k, {"createImageVolume", "mapNodesToPortSpecs", "createServer"}))
        => /\ r.name \notin networks
           /\ r.name \notin volumes

\* C3: a Create of a name that discovery finds fails at once: the only call is
\* the discovery query and networks, volumes, containers and directories are as before.
C3_TakenNameNoSideEffect ==
  \A p \in Procs :
     LET r == inv[p]
     IN (r.op = "create" /\ FoundBefore(r) # {})
        => /\ Done(r) /\ r.result = "err"
           /\ Len(r.calls) = 1
           /\ runtime = r.before

\* a Create of the name of an existing cluster has returned its error
C3_Witness ==
  \E p \in Procs :
     LET r == inv[p]
     IN /\ r.op = "create" /\ Done(r) /\ r.result = "err"
        /\ FoundBefore(r) # {}
        /\ ServersOf(containers, r.name) # {}

\* C4: after a successful Create with N workers, Discover(false, name) yields one
\* cluster, with one server and N workers whose ordinals are 0..N-1.
C4_CreateThenDiscover ==
  \A p \in Procs :
     LET r == inv[p]
         d == getClusters(containers, FALSE, r.name)
     IN (Done(r) /\ r.op = "create" /\ r.result = "ok")
        => /\ ~d.err
           /\ Cardinality(d.clusters) = 1
           /\ \A cl \in d.clusters :
                 /\ cl.name = r.name
                 /\ cl.server = r.serverID /\ cl.server # NoID
                 /\ Cardinality(ServersOf(containers, r.name)) = 1
                 /\ Len(cl.workers) = r.workers
                 /\ \A k \in 1..Len(cl.workers) :
                       \E x \in containers :
                          /\ x.id = cl.workers[k]
                          /\ x.name = WorkerName(r.name, k - 1)
                          /\ Suffix(x) = k - 1

\* a Create with two or more workers has succeeded
C4_Witness ==
  \E p \in Procs :
     LET r == inv[p]
     IN /\ Done(r) /\ r.op = "create" /\ r.result = "ok" /\ r.workers >= 2
        /\ Cardinality(WorkersOf(containers, r.name)) = r.workers

\* Delete of a target that matches no container: no error, no call but the
\* discovery query, nothing changed, and discovery finds nothing afterwards
DeleteOfNothing(r) ==
  FoundBefore(r) = {}
  => /\ r.result = "ok"
     /\ Len(r.calls) = 1
     /\ runtime = r.before
     /\ getClusters(containers, r.all, r.name).clusters = {}

\* the command is a Delete that follows a Delete of the same target, which found a cluster
SecondDelete(r) == r.op = "delete" /\ r.again

DeleteBlock(cl) ==
  [k \in 1..Len(cl.workers) |-> Call("removeWorker", cl.name, cl.workers[k], TRUE)]
  \o <<Call("deleteClusterDir", cl.name, 0, TRUE),
       Call("removeServer", cl.name, cl.server, TRUE),
       Call("deleteClusterNetwork", cl.name, 0, TRUE),
       Call("deleteImageVolume", cl.name, 0, TRUE)>>

RECURSIVE DeletePlan(_)
DeletePlan(clusters) ==
  IF clusters = <<>> THEN <<>>
  ELSE DeleteBlock(Head(clusters)) \o DeletePlan(Tail(clusters))

SameCall(x, y) == x.call = y.call /\ x.cluster = y.cluster /\ x.arg = y.arg

\* C6: Delete handles each cluster in the order workers, artifact directory,
\* server, network, volume; a failed server removal is the last call, Delete
\* returns an error and the network and volume of that cluster stay.
C6_DeleteOrder ==
  \A p \in Procs :
     LET r == inv[p]
         plan == DeletePlan(r.clusters)
     IN r.op = "delete"
        => /\ Len(r.calls) - 1 <= Len(plan)
           /\ \A k \in 2..Len(r.calls) : SameCall(r.calls[k], plan[k - 1])
           /\ \A k \in 1..Len(r.calls) :
                 FailedAt(r, k, {"removeServer"})
                 => /\ k = Len(r.calls)
                    /\ Done(r) /\ r.result = "err"
                    /\ r.calls[k].cluster \in r.before[2] => r.calls[k].cluster \in networks
                    /\ r.calls[k].cluster \in r.before[3] => r.calls[k].cluster \in volumes

\* a Delete removed the workers and the directory of a cluster, failed to remove
\* its server and returned with the network and the volume still there
C6_Witness ==
  \E p \in Procs :
     LET r == inv[p]
         k == Len(r.calls)
     IN /\ Done(r) /\ r.op = "delete" /\ r.result = "err"
        /\ k >= 4
        /\ FailedAt(r, k, {"removeServer"})
        /\ r.calls[k - 1].call = "deleteClusterDir"
        /\ r.calls[k - 2].call = "removeWorker" /\ r.calls[k - 2].ok
        /\ r.calls[k].cluster \in networks \cap volumes

\* C7: a Delete in which no server removal fails tries every worker, the server,
\* the network and the volume of every discovered cluster, whatever worker,
\* network or volume removal fails, and returns no error.
C7_DeleteBestEffort ==
  \A p \in Procs :
     LET r == inv[p]
     IN (/\ Done(r) /\ r.op = "delete"
         /\ \A k \in 1..Len(r.calls) : ~FailedAt(r, k, {"removeServer"}))
        => /\ r.result = "ok"
           /\ \A c \in 1..Len(r.clusters) :
                 LET cl == r.clusters[c]
                 IN /\ \A w \in 1..Len(cl.workers) :
                          Attempted(r, "removeWorker", cl.name, cl.workers[w])
                    /\ Attempted(r, "removeServer", cl.name, cl.server)
                    /\ Attempted(r, "deleteClusterNetwork", cl.name, 0)
                    /\ Attempted(r, "deleteImageVolume", cl.name, 0)

\* a Delete failed to remove a worker, went on to the next worker, the server,
\* the network and the volume, and returned no error
C7_Witness ==
  \E p \in Procs :
     LET r == inv[p]
     IN /\ Done(r) /\ r.op = "delete" /\ r.result = "ok"
        /\ \E k \in 1..Len(r.calls) :
              /\ FailedAt(r, k, {"removeWorker"})
              /\ r.calls[k + 1].call = "removeWorker"
              /\ r.calls[k + 1].cluster = r.calls[k].cluster
              /\ Attempted(r, "deleteImageVolume", r.calls[k].cluster, 0)

\* C8: a failed readiness wait starts the rollback and Create returns an error
\* with no worker ever created; without --wait the watcher is not called and the
\* first worker follows the server.
C8_WaitFailureRollsBack ==
  \A p \in Procs :
     LET r == inv[p]
         n == Len(r.calls)
         waits == {k \in 1..n : r.calls[k].call = "waitForContainerLogMessage"}
         after(k, call) == k < n => r.calls[k + 1].call = call
     IN r.op = "create"
        => /\ \A k \in waits :
                 ~r.calls[k].ok
                 => /\ r.pc \notin {"c_worker", "c_wait"}
                    /\ after(k, "getClusters")
                    /\ k < n => r.rollback
                    /\ Done(r) => r.result = "err"
                    /\ \A j \in 1..n : r.calls[j].call # "createWorker"
           /\ ~r.wait
              => /\ waits = {}
                 /\ \A k \in 1..n :
                       (r.calls[k].call = "createServer" /\ r.calls[k].ok)
                       => after(k, "createWorker")
           /\ r.wait
              => \A k \in 1..n :
                    (r.calls[k].call = "createServer" /\ r.calls[k].ok)
                    => after(k, "waitForContainerLogMessage")

\* a Create with --wait and workers requested returned an error after the wait
\* failed and the rollback removed the server
C8_Witness ==
  \E p \in Procs :
     LET r == inv[p]
     IN /\ Done(r) /\ r.op = "create" /\ r.result = "err" /\ r.wait /\ r.workers > 0
        /\ \E k \in 1..Len(r.calls) : FailedAt(r, k, {"waitForContainerLogMessage"})
        /\ \E k \in 1..Len(r.calls) : r.calls[k].call = "removeServer" /\ r.calls[k].ok

\* the steps of Create that the order is stated for
OrderedSteps ==
  {"getClusters", "createClusterNetwork", "createImageVolume", "createClusterDir",
   "createServer", "waitForContainerLogMessage", "createWorker"}

Ordered(c) == c.call \in OrderedSteps

\* the log up to and with the first failed call
RECURSIVE UntilFailure(_)
UntilFailure(calls) ==
  IF calls = <<>> THEN <<>>
  ELSE IF ~Head(calls).ok THEN <<Head(calls)>>
  ELSE <<Head(calls)>> \o UntilFailure(Tail(calls))

\* C9 as stated: the cluster directory is created only after the server and all
\* requested workers have been created.
C9_DirectoryLast ==
  \A p \in Procs :
     LET r == inv[p]
     IN r.op = "create"
        => \A k \in 1..Len(r.calls) :
              r.calls[k].call = "createClusterDir"
              => /\ \E j \in 1..(k - 1) : r.calls[j].call = "createServer" /\ r.calls[j].ok
                 /\ Cardinality({j \in 1..(k - 1) :
                                   r.calls[j].call = "createWorker" /\ r.calls[j].ok}) = r.workers

\* the steps of a Create in the order the code takes them
CreatePlan(r) ==
  <<Call("getClusters", r.name, 0, TRUE),
    Call("createClusterNetwork", r.name, 0, TRUE),
    Call("createImageVolume", r.name, 0, TRUE),
    Call("createClusterDir", r.name, 0, TRUE),
    Call("createServer", r.name, r.serverID, TRUE)>>
  \o (IF r.wait THEN <<Call("waitForContainerLogMessage", r.name, r.serverID, TRUE)>> ELSE <<>>)
  \o [k \in 1..r.workers |-> Call("createWorker", r.name, k - 1, TRUE)]

\* C9 amended: Create takes its steps in the order name check, network, volume,
\* cluster directory, server, optional wait, workers 0..N-1: the directory is
\* created after the volume and before the server.
C9_CreateOrder ==
  \A p \in Procs :
     LET r == inv[p]
         steps == SelectSeq(UntilFailure(r.calls), Ordered)
         plan == CreatePlan(r)
     IN r.op = "create"
        => /\ Len(steps) <= Len(plan)
           /\ \A k \in 1..Len(steps) :
                 /\ steps[k].call = plan[k].call
                 /\ steps[k].call = "createWorker" => steps[k].arg = plan[k].arg
           /\ (Done(r) /\ r.result = "ok") => Len(steps) = Len(plan)
           /\ \A k \in 1..Len(steps) :
                 steps[k].call = "createClusterDir"
                 => /\ \E j \in 1..(k - 1) : steps[j].call = "createImageVolume" /\ steps[j].ok
                    /\ \A j \in 1..k : steps[j].call \notin {"createServer", "createWorker"}

\* a Create with --wait and a worker has succeeded
C9_Witness ==
  \E p \in Procs :
     LET r == inv[p]
     IN /\ Done(r) /\ r.op = "create" /\ r.result = "ok" /\ r.wait /\ r.workers >= 1
        /\ r.name \in dirs
        /\ Attempted(r, "createClusterDir", r.name, 0)

\* the position of a call in the log, 0 when it is not there
Position(r, call, cluster, arg) ==
  IF Attempted(r, call, cluster, arg)
  THEN CHOOSE k \in 1..Len(r.calls) :
         r.calls[k].call = call /\ r.calls[k].cluster = cluster /\ r.calls[k].arg = arg
  ELSE 0

\* C10: Stop stops every worker of a cluster before its server; Start starts the
\* server of a cluster before any of its workers, and starts none of them when
\* the start of the server fails.
C10_StopStartOrder ==
  \A p \in Procs :
     LET r == inv[p]
         n == Len(r.calls)
     IN /\ r.op = "stop"
           => \A c \in 1..Len(r.clusters) :
                 LET cl == r.clusters[c]
                     s == Position(r, "stopServer", cl.name, cl.server)
                 IN /\ s # 0
                       => \A w \in 1..Len(cl.workers) :
                             LET k == Position(r, "stopWorker", cl.name, cl.workers[w])
                             IN k # 0 /\ k < s
                    /\ \A k \in 1..n :
                          (r.calls[k].call = "stopWorker" /\ r.calls[k].cluster = cl.name)
                          => (s = 0 \/ k < s)
        /\ r.op = "start"
           => /\ \A k \in 1..n :
                    r.calls[k].call = "startWorker"
                    => \E j \in 1..(k - 1) :
                          /\ r.calls[j].call = "startServer"
                          /\ r.calls[j].cluster = r.calls[k].cluster
                          /\ r.calls[j].ok
              /\ \A k \in 1..n :
                    FailedAt(r, k, {"startServer"})
                    => /\ k = n /\ Done(r) /\ r.result = "err"
                       /\ WorkersOf(containers, r.calls[k].cluster)
                            = WorkersOf(r.before[1], r.calls[k].cluster)

\* after a Stop of a cluster with workers, a Start failed to start the server and
\* returned with the workers still stopped
C10_Witness ==
  \E p \in Procs :
     LET r == inv[p]
         n == Len(r.calls)
     IN /\ Done(r) /\ r.op = "start" /\ r.result = "err"
        /\ n >= 2 /\ FailedAt(r, n, {"startServer"})
        /\ WorkersOf(containers, r.calls[n].cluster) # {}
        /\ \A x \in WorkersOf(containers, r.calls[n].cluster) : ~x.running

\* the IDs of the servers and workers of the clusters that discovery returns
DiscoveredIDs(cs, all, name) ==
  UNION {{cl.server} \cup {cl.workers[k] : k \in 1..Len(cl.workers)}
         : cl \in getClusters(cs, all, name).clusters} \ {NoID}

\* the command is a Start that follows a Stop of the same target
RoundTrip(r) == r.op = "start" /\ r.preStop # {}

\* C11: after Stop and then Start of a target, discovery returns the container IDs
\* it returned before the Stop; when no call of the two commands failed, every
\* container that was running before the Stop is running again.
C11_StopStartRoundTrip ==
  \A p \in Procs :
     LET r == inv[p]
     IN (Done(r) /\ RoundTrip(r))
        => /\ DiscoveredIDs(containers, r.all, r.name) = DiscoveredIDs(r.preStop, r.all, r.name)
           /\ {x.id : x \in containers} = {x.id : x \in r.preStop}
           /\ (r.stopOk /\ AllOk(r))
              => \A x \in Matching(r.preStop, r.all, r.name) :
                    x.running => x \in containers

\* a Stop and a Start without failure have brought a cluster with workers back up
C11_Witness ==
  \E p \in Procs :
     LET r == inv[p]
     IN /\ Done(r) /\ RoundTrip(r) /\ r.stopOk /\ AllOk(r)
        /\ \E k \in 1..Len(r.calls) : r.calls[k].call = "startWorker"
        /\ \E x \in r.preStop : x.running /\ x.comp = "worker" /\ x \in containers

\* ------------------------------------------ two commands at the same time
Racers == {1, 2}             \* two command processes on one runtime

\* no call fails for a reason of the runtime's own, and two commands are run
InitRace ==
  /\ \E present \in SUBSET Names :
       \E count \in [Names -> 0..MaxWorkers] :
          /\ count["a"] = IF "a" \in present THEN MaxWorkers ELSE 0
          /\ count["b"] = IF "b" \in present THEN 1 ELSE 0
          /\ containers = Created(present, count)
          /\ networks = present
          /\ volumes = present
          /\ dirs = present
  /\ nextId = 2 * (MaxWorkers + 1) + 1
  /\ failures = MaxFailures
  /\ ops = MaxOps - 2
  /\ inv = [p \in Racers |-> Idle]

StepRace(p) ==
  \/ CreateClusterCheck(p)
  \/ CreateClusterNetwork(p)
  \/ ParseAPIPort(p)
  \/ MapNodesToPortSpecs(p)
  \/ CreateImageVolume(p)
  \/ CreateClusterDir(p)
  \/ CreateServer(p)
  \/ WaitForServer(p)
  \/ CreateWorker(p)
  \/ Rollback(p)
  \/ DeleteClusterDiscover(p)
  \/ RemoveWorker(p)
  \/ DeleteClusterDir(p)
  \/ RemoveServer(p)
  \/ DeleteClusterNetwork(p)
  \/ DeleteImageVolume(p)

NextRace == \E p \in Racers : StepRace(p)

SpecRace == InitRace /\ [][NextRace]_vars

\* the cluster is not there at all
Absent(c) == ContainersOf(c) = {} /\ c \notin networks /\ c \notin volumes

\* the cluster is there as a Create with k workers makes it
Present(c, k) ==
  /\ \E sv \in ServersOf(containers, c) : sv.running /\ ServersOf(containers, c) = {sv}
  /\ {w.name : w \in WorkersOf(containers, c)} = {WorkerName(c, n) : n \in 0..(k - 1)}
  /\ Cardinality(WorkersOf(containers, c)) = k
  /\ \A w \in WorkersOf(containers, c) : w.running
  /\ c \in networks /\ c \in volumes

\* one of the two commands had returned when the other was started
Serial(x, y) == x.ended <= y.started \/ y.ended <= x.started

\* a Create and a Delete of the same cluster, both returned
CreateAndDelete(x, y) ==
  /\ Done(x) /\ x.op = "create"
  /\ Done(y) /\ y.op = "delete" /\ (y.all \/ y.name = x.name)

\* C20: nothing keeps a Create and a Delete of one name apart: the two can run
\* at the same time and leave, both returned, a cluster that is neither there
\* as created nor gone (C20_Witness).  Run one after the other they leave it
\* either there or gone, so what is left in between is the work of the overlap.
C20_PartialOnlyWhenInterleaved ==
  \A x, y \in Racers :
     (CreateAndDelete(inv[x], inv[y]) /\ Serial(inv[x], inv[y]))
     => Absent(inv[x].name) \/ Present(inv[x].name, inv[x].workers)

\* a Create and a Delete of one name ran at the same time, both returned without
\* error, and what is left is no cluster of any size and not nothing
C20_Witness ==
  \E x, y \in Racers :
     /\ CreateAndDelete(inv[x], inv[y]) /\ ~Serial(inv[x], inv[y])
     /\ inv[x].result = "ok" /\ inv[y].result = "ok"
     /\ ~Absent(inv[x].name)
     /\ \A k \in 0..MaxWorkers : ~Present(inv[x].name, k)

AddNodeDone(r) == Done(r) /\ r.op = "addnode"

\* the workers of the command's cluster before the command and those added by it
OldWorkers(r) == WorkersOf(r.before[1], r.name)
NewWorkers(r) == WorkersOf(containers, r.name) \ OldWorkers(r)

\* the highest suffix among the workers that were there, 0 without workers
HighestBefore(r) == Max({0} \cup {Suffix(w) : w \in OldWorkers(r)})

\* C12: AddNode with role worker and count c adds workers with exactly the
\* ordinals highest+1 .. highest+c, highest being the largest suffix of the
\* workers that existed (0 without any): no new ordinal is one that existed, and
\* a gap below highest is not filled.  An AddNode that fails has added ordinals
\* of that range only.
C12_NextOrdinals ==
  \A p \in Procs :
     LET r == inv[p]
         h == HighestBefore(r)
         added == {Suffix(w) : w \in NewWorkers(r)}
     IN (AddNodeDone(r) /\ r.nodeRole = "agent")
        => /\ added \subseteq (h + 1)..(h + r.nodeCount)
           /\ added \cap {Suffix(w) : w \in OldWorkers(r)} = {}
           /\ r.result = "ok"
              => /\ added = (h + 1)..(h + r.nodeCount)
                 /\ Cardinality(NewWorkers(r)) = r.nodeCount
                 /\ \A w \in NewWorkers(r) : w.name = WorkerName(r.name, Suffix(w))

\* two workers were added to a cluster with workers 0 and 2: they are 3 and 4
C12_Witness ==
  \E p \in Procs :
     LET r == inv[p]
     IN /\ AddNodeDone(r) /\ r.result = "ok" /\ r.nodeCount = 2
        /\ {Suffix(w) : w \in OldWorkers(r)} = {0, 2}
        /\ {Suffix(w) : w \in NewWorkers(r)} = {3, 4}

\* the running servers of the command's cluster when the command started
RunningServers(r) == {x \in ServersOf(r.before[1], r.name) : x.running}

\* the positions of the secret entries of an environment, and of the port flag
\* of a command
SecretAt(env) == {k \in 1..Len(env) : Len(env[k]) > 1 /\ env[k][1] = "K3S_CLUSTER_SECRET"
                                      /\ env[k][2] = "="}
FlagAt(cmd) == {k \in 1..Len(cmd) : cmd[k] = "--https-listen-port"}

\* C13: every worker AddNode creates carries the server's K3S_CLUSTER_SECRET
\* entry unchanged, and a K3S_URL made of the server container's name and the
\* argument after --https-listen-port; when the server has no secret entry or no
\* port flag, AddNode returns an error and creates no worker.
C13_JoinConfig ==
  \A p \in Procs :
     LET r == inv[p]
     IN AddNodeDone(r)
        => \A sv \in RunningServers(r) :
              /\ \A w \in NewWorkers(r) :
                    /\ SecretAt(sv.env) # {} /\ FlagAt(sv.cmd) # {}
                    /\ w.env = <<(<<"K3S_URL", "=", "https://">> \o sv.name)
                                    \o <<":", sv.cmd[Max(FlagAt(sv.cmd)) + 1]>>,
                                 sv.env[Max(SecretAt(sv.env))]>>
              /\ (SecretAt(sv.env) = {} \/ FlagAt(sv.cmd) = {})
                 => r.result = "err" /\ NewWorkers(r) = {}

\* workers were added to a server with port 7443 and two secret entries
C13_Witness ==
  \E p \in Procs :
     LET r == inv[p]
     IN /\ AddNodeDone(r) /\ r.result = "ok" /\ NewWorkers(r) # {}
        /\ \E sv \in RunningServers(r) :
              /\ sv.cmd[Max(FlagAt(sv.cmd)) + 1] = "7443"
              /\ Cardinality(SecretAt(sv.env)) = 2

\* an AddNode on a server without secret or without port flag has failed
C13_WitnessAbsent ==
  \E p \in Procs :
     LET r == inv[p]
     IN /\ AddNodeDone(r) /\ r.nodeRole = "agent" /\ r.nodeCount > 0
        /\ \E sv \in RunningServers(r) : SecretAt(sv.env) = {} \/ FlagAt(sv.cmd) = {}

\* C14: AddNode with role server (or its alias master) returns the error of the
\* unsupported role before any call to the runtime: its log of calls is empty
\* and the runtime is as it was.
C14_ServerRoleFailsFast ==
  \A p \in Procs :
     LET r == inv[p]
     IN (r.op = "addnode" /\ r.nodeRole = "server")
        => /\ Done(r) /\ r.result = "err"
           /\ r.calls = <<>>
           /\ runtime = r.before

\* AddNode with role server was refused on a cluster it could have joined
C14_Witness ==
  \E p \in Procs :
     LET r == inv[p]
     IN /\ AddNodeDone(r) /\ r.nodeRole = "server" /\ r.nodeCount > 0
        /\ \E sv \in RunningServers(r) : SecretAt(sv.env) # {} /\ FlagAt(sv.cmd) # {}
        /\ r.name \in networks

\* C15: AddNode with a role that is not worker (or its alias agent) returns an
\* error and creates no container, also for a role that is neither worker nor
\* server.
C15_OtherRoleIsError ==
  \A p \in Procs :
     LET r == inv[p]
     IN (AddNodeDone(r) /\ r.nodeRole # "agent")
        => r.result = "err" /\ containers = r.before[1]

\* C16: AddNode on a cluster without running server, be the server absent or
\* stopped, returns an error and creates no worker.
C16_NoRunningServer ==
  \A p \in Procs :
     LET r == inv[p]
     IN (AddNodeDone(r) /\ RunningServers(r) = {})
        => r.result = "err" /\ containers = r.before[1]

\* AddNode of a worker has failed on a cluster whose server is stopped
C16_Witness ==
  \E p \in Procs :
     LET r == inv[p]
     IN /\ AddNodeDone(r) /\ r.nodeRole = "agent" /\ r.nodeCount > 0
        /\ RunningServers(r) = {} /\ ServersOf(r.before[1], r.name) # {}
        /\ \A k \in 1..Len(r.calls) : r.calls[k].ok

\* C17: with an existing worker whose last name segment is no integer, AddNode
\* returns an error and creates no worker, wherever the name stands in the list.
C17_MalformedSuffixIsError ==
  \A p \in Procs :
     LET r == inv[p]
     IN (AddNodeDone(r) /\ \E w \in OldWorkers(r) : Suffix(w) = -1)
        => r.result = "err" /\ NewWorkers(r) = {}

\* ------------------------------------------------------- server environment
\* the servers the Create of r has made so far
NewServers(r) ==
  IF r.op = "create" THEN ServersOf(containers, r.name) \ r.before[1] ELSE {}

KubeconfigVar == <<"K3S_KUBECONFIG_OUTPUT", "=", "/output/kubeconfig.yaml">>
SecretVar(secret) == <<"K3S_CLUSTER_SECRET", "=", secret>>

\* C18 as stated: the environment of the server Create makes is the kubeconfig
\* variable, then the generated cluster secret, then the variables of the user.
C18_UserEnvLast ==
  \A p \in Procs : \A sv \in NewServers(inv[p]) :
     \E userEnv \in UserEnvs, secret \in Secrets :
        sv.env = <<KubeconfigVar, SecretVar(secret)>> \o userEnv

\* C18: the environment of the server Create makes is the kubeconfig variable,
\* then the variables of the user, then the generated cluster secret last.
C18_SecretLast ==
  \A p \in Procs : \A sv \in NewServers(inv[p]) :
     \E userEnv \in UserEnvs, secret \in Secrets :
        sv.env = (<<KubeconfigVar>> \o userEnv) \o <<SecretVar(secret)>>

\* a Create with one --env variable has made its server
C18_Witness ==
  \E p \in Procs : \E sv \in NewServers(inv[p]) :
     /\ Done(inv[p]) /\ inv[p].result = "ok"
     /\ Len(sv.env) = 3 /\ sv.env[2] = <<"FOO", "=", "1">>

\* --------------------------------------------------- commands with --all
\* the command has made its call on the server of the cluster
ServerProcessed(r, c) ==
  \E k \in 1..Len(r.calls) :
     r.calls[k].call \in {"removeServer", "stopServer", "startServer"} /\ r.calls[k].cluster = c

\* C19: a Delete, Stop or Start with --all whose call on the server of one
\* cluster fails still processes every other cluster that was discovered, the
\* later ones included.
C19_OtherClustersProcessed ==
  \A p \in Procs :
     LET r == inv[p]
     IN (Done(r) /\ r.all /\ r.op \in {"delete", "stop", "start"})
        => \A k \in 1..Len(r.clusters) : ServerProcessed(r, r.clusters[k].name)

\* ------------------------------------------------------------- port lookup
\* the command has inspected the server and found its secret: the port lookup ran
PortLookedUp(r) ==
  /\ AddNodeDone(r)
  /\ \E k \in 1..Len(r.calls) : r.calls[k].call = "inspectServer" /\ r.calls[k].ok
  /\ r.clusterSecretEnvVar # <<>>

\* C21: for every command of the server, the port lookup of AddNode ends with a
\* port or with a returned error; with --https-listen-port as the last part of
\* the command AddNode returns an error and does not read past the end.
C21_PortLookupDefined ==
  \A p \in Procs :
     LET r == inv[p]
         cmd == r.serverContainer.cmd
     IN PortLookedUp(r)
        => /\ r.result \in {"ok", "err"}
           /\ r.result = "ok" => r.serverListenPort # ""
           /\ (Len(cmd) > 0 /\ cmd[Len(cmd)] = "--https-listen-port") => r.result = "err"

====
